---- MODULE Spec2Model ----
(***************************************************************************)
(* StudioMix: the App component (handlers, timeline loop, export logic)    *)
(* and the AudioEngine it drives, as one state machine.                    *)
(*                                                                         *)
(* Time is counted in units of 500 ms on one clock: the AudioContext       *)
(* clock and the timer clock advance together.  A React state update and   *)
(* the re-run of the effects that depend on it are taken in the same step  *)
(* as the handler that made the update.                                    *)
(***************************************************************************)
EXTENDS Integers, FiniteSets, Sequences, TLC

\* ------------------------------------------------------------------ bounds
MaxClock      == 2    \* the clock stops advancing here
MaxRecordings == 2    \* record-start requests over a run
MaxExports    == 2    \* exports in flight at once

\* the 500 ms buffer added to the export timer, in clock units
Margin == 1

\* the audio files the user picks from, each selected at most once; id names
\* the file, dur is the duration its decoded buffer has, in clock units
Files == {[id |-> 1, dur |-> 1], [id |-> 2, dur |-> 2]}

\* ------------------------------------------------------------------ types
IDLE            == "IDLE"
READY_TO_RECORD == "READY_TO_RECORD"
RECORDING       == "RECORDING"
REVIEW          == "REVIEW"
EXPORTING       == "EXPORTING"
AppState == {IDLE, READY_TO_RECORD, RECORDING, REVIEW, EXPORTING}

\* volume and reverbMix in hundredths, the EQ gains in dB
DEFAULT_EFFECTS ==
  [volume |-> 100, lowGain |-> 0, midGain |-> 0, highGain |-> 0, reverbMix |-> 10]

\* the settings the sliders and knobs are moved between
EffectsSet == {DEFAULT_EFFECTS, [DEFAULT_EFFECTS EXCEPT !.reverbMix = 50]}

Slots == {"backing", "vocal"}

\* a null buffer / a null source reference
NoBuffer == [id |-> 0, dur |-> 0]
NoSource == [on |-> FALSE, start |-> 0, offset |-> 0, asset |-> 0]

\* alert() messages
NoAlert   == "none"
AlertLoad == "Error loading audio file. Please use MP3/WAV."
AlertMic  == "Microphone permission is required to record."

VARIABLES
  \* ---- App: React state
  appState, effects, duration, currentTime, isPlaying,
  \* ---- App: refs; rafRef is TRUE while a requested frame callback is pending
  mediaRecorderRef, streamRef, startTimeRef, rafRef,
  \* ---- AudioEngine object (buffers, source references, parameter targets)
  \*      and the nodes of the audio graph its sources and sinks make up
  eng, nodes, sinks,
  \* ---- the platform: clock, pending completions, recorders, streams
  now, selected, uploads, micRequests, micPending,
  recorders, streams, exports, alert

appVars  == <<appState, effects, duration, currentTime, isPlaying>>
refVars  == <<mediaRecorderRef, streamRef, startTimeRef>>
engVars  == <<eng, nodes, sinks>>
envVars  == <<now, selected, uploads, micRequests, micPending,
              recorders, streams, exports, alert>>
vars     == <<appVars, refVars, rafRef, engVars, envVars>>

\* ------------------------------------------------------------ AudioEngine
\* The object is the record eng; nodes counts, per slot, the source nodes
\* that are started and connected in the graph.  Engine methods are
\* operators on the pair g = [eng, nodes].

\* applyEffects: six setTargetAtTime calls, time constant 0.1
EffectTargets(fx) ==
  [low   |-> fx.lowGain,
   mid   |-> fx.midGain,
   high  |-> fx.highGain,
   dry   |-> 1000 - 6 * fx.reverbMix,    \* 1 - wet * 0.6, in thousandths
   wet   |-> 2 * fx.reverbMix,           \* wet * 2, in hundredths
   vocal |-> fx.volume]

\* the values the six parameters have after the constructor: the default gain
\* of a GainNode is 1, the default gain of a BiquadFilterNode is 0
DefaultValues ==
  [low |-> 0, mid |-> 0, high |-> 0, dry |-> 1000, wet |-> 100, vocal |-> 100]

\* variant of applyEffects that assigns the values (gain.value = x)
applyEffectsSetsValue(g, fx) ==
  [g EXCEPT !.eng.target = EffectTargets(fx),
            !.eng.value = EffectTargets(fx)]

\* variant of applyEffects that also stops the sources
applyEffectsStopsSources(g, fx) ==
  [g EXCEPT !.eng.target = EffectTargets(fx),
            !.eng.source = [s \in Slots |-> NoSource],
            !.nodes = [s \in Slots |-> 0]]

\* setTargetAtTime only schedules an approach to the target: value is untouched
applyEffects(g, fx) == [g EXCEPT !.eng.target = EffectTargets(fx)]

\* one branch of stop(): stop, disconnect and forget the slot's source
stopSlot(g, slot) ==
  IF g.eng.source[slot].on
    THEN [g EXCEPT !.eng.source[slot] = NoSource,
                   !.nodes[slot] = @ - 1]
    ELSE g

\* variant of stop() without its vocal branch
stopBackingOnly(g) == stopSlot(g, "backing")

\* stop(): both branches

stop(g) == stopSlot(stopSlot(g, "backing"), "vocal")

\* one branch of play(): create, connect and start a source if a buffer is loaded
startSlot(g, slot, t, offset) ==
  IF g.eng.buffer[slot].id # 0
    THEN [g EXCEPT !.eng.source[slot] =
                      [on |-> TRUE, start |-> t, offset |-> offset,
                       asset |-> g.eng.buffer[slot].id],
                   !.nodes[slot] = @ + 1]
    ELSE g

\* variant of play() without its leading this.stop()
playWithoutStop(g, offset, fx, t) ==
  startSlot(startSlot(applyEffects(g, fx), "backing", t, offset), "vocal", t, offset)

\* play(): stop, applyEffects, then one source per loaded buffer at "now"
play(g, offset, fx, t) ==
  startSlot(startSlot(applyEffects(stop(g), fx), "backing", t, offset),
            "vocal", t, offset)

G == [eng |-> eng, nodes |-> nodes]

SetEngine(g) == /\ eng' = g.eng
                /\ nodes' = g.nodes

\* --------------------------------------------------------------- Init
Init ==
  /\ appState = IDLE
  /\ effects = DEFAULT_EFFECTS
  /\ duration = 0
  /\ currentTime = 0
  /\ isPlaying = FALSE
  /\ mediaRecorderRef = 0
  /\ streamRef = 0
  /\ startTimeRef = 0
  /\ rafRef = FALSE
  /\ eng = [buffer |-> [s \in Slots |-> NoBuffer],
            source |-> [s \in Slots |-> NoSource],
            value  |-> DefaultValues,
            target |-> EffectTargets(DEFAULT_EFFECTS)]
  /\ nodes = [s \in Slots |-> 0]
  /\ sinks = 0
  /\ now = 0
  /\ selected = {}
  /\ uploads = {}
  /\ micRequests = 0
  /\ micPending = [fx \in EffectsSet |-> 0]
  /\ recorders = [r \in 1..MaxRecordings |-> "unused"]
  /\ streams = [r \in 1..MaxRecordings |-> "unused"]
  /\ exports = [x \in 1..MaxExports |-> [st |-> "unused", deadline |-> 0]]
  /\ alert = NoAlert


\* ------------------------------------------------------------ tick loop
\* variant of the timeline effect whose cleanup does not cancel the frame
TimelineEffectNoCancel(pending) ==
  rafRef' = IF <<isPlaying', duration'>> # <<isPlaying, duration>>
              THEN (isPlaying' \/ pending)
              ELSE pending

\* The timeline effect, deps [isPlaying, duration], as part of the step that
\* renders: when a dep changed the cleanup cancels the pending frame callback
\* and the effect requests one if isPlaying; otherwise what the step left
\* pending stays pending.
TimelineEffect(pending) ==
  rafRef' = IF <<isPlaying', duration'>> # <<isPlaying, duration>>
              THEN isPlaying'
              ELSE pending

\* variant of loop() that never detects the end of the track
TickNeverEnds ==
  /\ rafRef
  /\ currentTime' = now - startTimeRef
  /\ UNCHANGED <<isPlaying, eng, nodes>>
  /\ UNCHANGED <<appState, effects, duration, refVars, sinks, envVars>>
  /\ TimelineEffect(TRUE)

\* loop(): the pending frame callback runs.  Its closure is the one of the
\* render that requested it, in which isPlaying was true; it requests the
\* next frame unless the end is reached.
Tick ==
  /\ rafRef
  /\ LET elapsed == now - startTimeRef IN
       IF elapsed >= duration
         THEN /\ isPlaying' = FALSE
              /\ currentTime' = duration
              /\ SetEngine(stop(G))
         ELSE /\ currentTime' = elapsed
              /\ UNCHANGED <<isPlaying, eng, nodes>>
  /\ UNCHANGED <<appState, effects, duration, refVars, sinks, envVars>>
  /\ TimelineEffect(now - startTimeRef < duration)

\* the effect on [effects]: applyEffects whenever the settings change; the
\* sliders and knobs take pointer events in REVIEW only
SetEffects ==
  /\ appState = REVIEW
  /\ \E fx \in EffectsSet \ {effects} :
       /\ effects' = fx
       /\ SetEngine(applyEffects(G, fx))
  /\ UNCHANGED <<appState, duration, currentTime, isPlaying, refVars, sinks, envVars>>
  /\ TimelineEffect(rafRef)

\* ------------------------------------------------------------ handlers
\* handleFileUpload up to its first await; the file input is rendered in IDLE
handleFileUpload ==
  /\ appState = IDLE
  /\ \E file \in Files \ selected :
       /\ selected' = selected \cup {file}
       /\ uploads' = uploads \cup {file}
  /\ SetEngine(stop(G))
  /\ appState' = IDLE
  /\ UNCHANGED <<effects, duration, currentTime, isPlaying, refVars, sinks,
                 now, micRequests, micPending, recorders, streams, exports, alert>>
  /\ TimelineEffect(rafRef)

\* loadBackingTrack: the decoded file becomes the backing buffer
loadBackingTrack(g, file) ==
  [g EXCEPT !.eng.buffer["backing"] = [id |-> file.id, dur |-> file.dur]]

\* the decode of a selected file resolved: the rest of the try block
UploadDecoded ==
  \E file \in uploads :
    /\ uploads' = uploads \ {file}
    /\ SetEngine(loadBackingTrack(G, file))
    /\ duration' = eng'.buffer["backing"].dur
    /\ appState' = READY_TO_RECORD
    /\ UNCHANGED <<effects, currentTime, isPlaying, refVars, sinks,
                   now, selected, micRequests, micPending, recorders,
                   streams, exports, alert>>
    /\ TimelineEffect(rafRef)

\* variant of the catch that also drops the backing buffer and the duration
UploadFailedClearsTrack ==
  \E file \in uploads :
    /\ uploads' = uploads \ {file}
    /\ alert' = AlertLoad
    /\ eng' = [eng EXCEPT !.buffer["backing"] = NoBuffer]
    /\ duration' = 0
    /\ UNCHANGED <<appState, effects, currentTime, isPlaying, refVars, nodes,
                   sinks, now, selected, micRequests, micPending, recorders,
                   streams, exports>>
    /\ TimelineEffect(rafRef)

\* the decode rejected: the catch of handleFileUpload
UploadFailed ==
  \E file \in uploads :
    /\ uploads' = uploads \ {file}
    /\ alert' = AlertLoad
    /\ UNCHANGED <<appVars, refVars, engVars,
                   now, selected, micRequests, micPending, recorders,
                   streams, exports>>
    /\ TimelineEffect(rafRef)

\* startRecording up to the await of getUserMedia; the Mic button is
\* rendered in READY_TO_RECORD.  The closure keeps the effects of its render.
startRecording ==
  /\ appState = READY_TO_RECORD
  /\ micRequests < MaxRecordings
  /\ micRequests' = micRequests + 1
  /\ micPending' = [micPending EXCEPT ![effects] = @ + 1]
  /\ UNCHANGED <<appVars, refVars, engVars,
                 now, selected, uploads, recorders, streams,
                 exports, alert>>
  /\ TimelineEffect(rafRef)

NextRecorder == CHOOSE r \in 1..MaxRecordings :
                  /\ recorders[r] = "unused"
                  /\ \A q \in 1..(r - 1) : recorders[q] # "unused"

\* getUserMedia resolved: the rest of the try block of startRecording
MicGranted ==
  \E fx \in EffectsSet :
    /\ micPending[fx] > 0
    /\ micPending' = [micPending EXCEPT ![fx] = @ - 1]
    /\ streams' = [streams EXCEPT ![NextRecorder] = "live"]
    /\ recorders' = [recorders EXCEPT ![NextRecorder] = "recording"]
    /\ streamRef' = NextRecorder
    /\ mediaRecorderRef' = NextRecorder
    /\ SetEngine(play(G, 0, fx, now))
    /\ startTimeRef' = now
    /\ appState' = RECORDING
    /\ isPlaying' = TRUE
    /\ UNCHANGED <<effects, duration, currentTime, sinks,
                   now, selected, uploads, micRequests, exports, alert>>
    /\ TimelineEffect(rafRef)

\* variant of the denial in which the rest of the try block still runs
MicDeniedStartsAnyway ==
  \E fx \in EffectsSet :
    /\ micPending[fx] > 0
    /\ micPending' = [micPending EXCEPT ![fx] = @ - 1]
    /\ alert' = AlertMic
    /\ SetEngine(play(G, 0, fx, now))
    /\ startTimeRef' = now
    /\ appState' = RECORDING
    /\ isPlaying' = TRUE
    /\ UNCHANGED <<effects, duration, currentTime, mediaRecorderRef, streamRef,
                   sinks, now, selected, uploads, micRequests,
                   recorders, streams, exports>>
    /\ TimelineEffect(rafRef)

\* getUserMedia rejected: the catch of startRecording
MicDenied ==
  \E fx \in EffectsSet :
    /\ micPending[fx] > 0
    /\ micPending' = [micPending EXCEPT ![fx] = @ - 1]
    /\ alert' = AlertMic
    /\ UNCHANGED <<appVars, refVars, engVars,
                   now, selected, uploads, micRequests, recorders,
                   streams, exports>>
    /\ TimelineEffect(rafRef)

\* the Stop button is rendered in RECORDING
stopRecording ==
  /\ appState = RECORDING
  /\ recorders' = IF mediaRecorderRef # 0 /\ recorders[mediaRecorderRef] = "recording"
                    THEN [recorders EXCEPT ![mediaRecorderRef] = "stopping"]
                    ELSE recorders
  /\ streams' = IF streamRef # 0
                  THEN [streams EXCEPT ![streamRef] = "ended"]
                  ELSE streams
  /\ SetEngine(stop(G))
  /\ isPlaying' = FALSE
  /\ UNCHANGED <<appState, effects, duration, currentTime, refVars, sinks,
                 now, selected, uploads, micRequests, micPending,
                 exports, alert>>
  /\ TimelineEffect(rafRef)

\* variant of loadVocalTrack that decodes and does not keep the buffer
loadVocalTrackDropsBuffer(g, id) == g

\* loadVocalTrack: the decoded blob becomes the vocal buffer
loadVocalTrack(g, id) ==
  [g EXCEPT !.eng.buffer["vocal"] = [id |-> id, dur |-> 1]]

\* mediaRecorder.onstop with the decode of the captured blob resolved
RecorderStopped ==
  \E r \in 1..MaxRecordings :
    /\ recorders[r] = "stopping"
    /\ recorders' = [recorders EXCEPT ![r] = "done"]
    /\ SetEngine(loadVocalTrack(G, r))
    /\ appState' = REVIEW
    /\ UNCHANGED <<effects, duration, currentTime, isPlaying, refVars, sinks,
                   now, selected, uploads, micRequests, micPending,
                   streams, exports, alert>>
    /\ TimelineEffect(rafRef)

\* mediaRecorder.onstop with the decode rejected: nothing catches it
RecorderDecodeFailed ==
  \E r \in 1..MaxRecordings :
    /\ recorders[r] = "stopping"
    /\ recorders' = [recorders EXCEPT ![r] = "failed"]
    /\ UNCHANGED <<appVars, refVars, engVars,
                   now, selected, uploads, micRequests, micPending,
                   streams, exports, alert>>
    /\ TimelineEffect(rafRef)

\* variant of togglePlayback that takes the reference at now, without the offset
togglePlaybackDropsOffset ==
  /\ appState = REVIEW
  /\ IF isPlaying
       THEN /\ SetEngine(stop(G))
            /\ isPlaying' = FALSE
            /\ UNCHANGED startTimeRef
       ELSE /\ SetEngine(play(G, currentTime, effects, now))
            /\ startTimeRef' = now
            /\ isPlaying' = TRUE
  /\ UNCHANGED <<appState, effects, duration, currentTime, mediaRecorderRef,
                 streamRef, sinks, envVars>>
  /\ TimelineEffect(rafRef)

\* the Play/Pause button is rendered in REVIEW
togglePlayback ==
  /\ appState = REVIEW
  /\ IF isPlaying
       THEN /\ SetEngine(stop(G))
            /\ isPlaying' = FALSE
            /\ UNCHANGED startTimeRef
       ELSE /\ SetEngine(play(G, currentTime, effects, now))
            /\ startTimeRef' = now - currentTime
            /\ isPlaying' = TRUE
  /\ UNCHANGED <<appState, effects, duration, currentTime, mediaRecorderRef,
                 streamRef, sinks, envVars>>
  /\ TimelineEffect(rafRef)

\* the scrubber: max = duration || 100, disabled in RECORDING and EXPORTING
SeekMax == IF duration = 0 THEN 100 ELSE duration

\* variant of handleSeek that restarts the sources and keeps the old reference
handleSeekKeepsReference ==
  /\ appState \in {READY_TO_RECORD, REVIEW}
  /\ \E time \in 0..SeekMax :
       /\ currentTime' = time
       /\ IF isPlaying
            THEN /\ SetEngine(play(G, time, effects, now))
                 /\ UNCHANGED startTimeRef
            ELSE UNCHANGED <<eng, nodes, startTimeRef>>
  /\ UNCHANGED <<appState, effects, duration, isPlaying, mediaRecorderRef,
                 streamRef, sinks, envVars>>
  /\ TimelineEffect(rafRef)

\* handleSeek: the position is set; a playing transport restarts at it
handleSeek ==
  /\ appState \in {READY_TO_RECORD, REVIEW}
  /\ \E time \in 0..SeekMax :
       /\ currentTime' = time
       /\ IF isPlaying
            THEN /\ SetEngine(play(G, time, effects, now))
                 /\ startTimeRef' = now - time
            ELSE UNCHANGED <<eng, nodes, startTimeRef>>
  /\ UNCHANGED <<appState, effects, duration, isPlaying, mediaRecorderRef,
                 streamRef, sinks, envVars>>
  /\ TimelineEffect(rafRef)

\* the Reset button is rendered in REVIEW
handleReset ==
  /\ appState = REVIEW
  /\ SetEngine(stop(G))
  /\ isPlaying' = FALSE
  /\ currentTime' = 0
  /\ appState' = READY_TO_RECORD
  /\ UNCHANGED <<effects, duration, refVars, sinks, envVars>>
  /\ TimelineEffect(rafRef)


\* ------------------------------------------------------------ export
FreeExport == CHOOSE x \in 1..MaxExports :
                /\ exports[x].st = "unused"
                /\ \A y \in 1..(x - 1) : exports[y].st # "unused"

\* handleDownload when document.querySelector('canvas') finds nothing
handleDownloadNoCanvas ==
  /\ appState = REVIEW
  /\ appState' = EXPORTING
  /\ SetEngine(stop(G))
  /\ UNCHANGED <<effects, duration, currentTime, isPlaying, refVars, sinks, envVars>>
  /\ TimelineEffect(rafRef)

\* handleDownload with a canvas; the Download button is rendered in REVIEW.
\* The recorder, the sink and the timer it creates are one entry of exports;
\* only exports whose timer falls within the clock's range are started.
handleDownload ==
  /\ appState = REVIEW
  /\ \E x \in 1..MaxExports : exports[x].st = "unused"
  /\ now + duration + Margin <= MaxClock
  /\ appState' = EXPORTING
  /\ sinks' = sinks + 1
  /\ exports' = [exports EXCEPT ![FreeExport] =
                   [st |-> "recording", deadline |-> now + duration + Margin]]
  /\ SetEngine(play(stop(G), 0, effects, now))
  /\ startTimeRef' = now
  /\ isPlaying' = TRUE
  /\ UNCHANGED <<effects, duration, currentTime, mediaRecorderRef, streamRef,
                 now, selected, uploads, micRequests, micPending,
                 recorders, streams, alert>>
  /\ TimelineEffect(rafRef)

\* the setTimeout callback of export x
ExportTimer ==
  \E x \in 1..MaxExports :
    /\ exports[x].st = "recording"
    /\ now >= exports[x].deadline
    /\ exports' = [exports EXCEPT ![x].st = "stopping"]
    /\ SetEngine(stop(G))
    /\ isPlaying' = FALSE
    /\ UNCHANGED <<appState, effects, duration, currentTime, refVars, sinks,
                   now, selected, uploads, micRequests, micPending,
                   recorders, streams, alert>>
    /\ TimelineEffect(rafRef)

\* recorder.onstop of export x
ExportStopped ==
  \E x \in 1..MaxExports :
    /\ exports[x].st = "stopping"
    /\ sinks' = sinks - 1
    /\ exports' = [exports EXCEPT ![x] = [st |-> "unused", deadline |-> 0]]
    /\ appState' = REVIEW
    /\ UNCHANGED <<effects, duration, currentTime, isPlaying, refVars, eng, nodes,
                   now, selected, uploads, micRequests, micPending,
                   recorders, streams, alert>>
    /\ TimelineEffect(rafRef)

\* ------------------------------------------------------------ clock
\* one clock unit is five time constants of setTargetAtTime: every parameter
\* has reached its target to within 1 %
AdvanceClock ==
  /\ now < MaxClock
  /\ now' = now + 1
  /\ eng' = [eng EXCEPT !.value = eng.target]
  /\ UNCHANGED <<appVars, refVars, rafRef, nodes, sinks,
                 selected, uploads, micRequests, micPending,
                 recorders, streams, exports, alert>>

\* ------------------------------------------------------------ specification
Next ==
  \/ Tick
  \/ SetEffects
  \/ handleFileUpload
  \/ UploadDecoded
  \/ UploadFailed
  \/ startRecording
  \/ MicGranted
  \/ MicDenied
  \/ stopRecording
  \/ RecorderStopped
  \/ RecorderDecodeFailed
  \/ togglePlayback
  \/ handleSeek
  \/ handleReset
  \/ handleDownloadNoCanvas
  \/ handleDownload
  \/ ExportTimer
  \/ ExportStopped
  \/ AdvanceClock

Spec == Init /\ [][Next]_vars


\* the callbacks the browser has queued are eventually run, and the clock runs
FairSpec ==
  /\ Spec
  /\ WF_vars(Tick)
  /\ WF_vars(UploadDecoded \/ UploadFailed)
  /\ WF_vars(MicGranted \/ MicDenied)
  /\ WF_vars(RecorderStopped \/ RecorderDecodeFailed)
  /\ WF_vars(ExportTimer)
  /\ WF_vars(ExportStopped)
  /\ WF_vars(AdvanceClock)

\* ------------------------------------------------------------ properties
NoActiveSources == \A s \in Slots : nodes[s] = 0

\* C1: each slot (backing, vocal) has at most one started, connected source
\* node at any time, whatever sequence of play, seek, record-start,
\* export-start, stop and load operations ran.
C1_OneSourcePerSlot == \A s \in Slots : nodes[s] <= 1

\* a second record-start resolved while the first recording was still playing
C1_Witness ==
  /\ recorders[1] = "recording"
  /\ recorders[2] = "recording"
  /\ eng.source["backing"].on
  /\ nodes["backing"] = 1

\* C2: every change of appState is one of IDLE->READY_TO_RECORD,
\* READY_TO_RECORD->RECORDING, RECORDING->REVIEW, REVIEW->EXPORTING,
\* EXPORTING->REVIEW, REVIEW->READY_TO_RECORD.
AllowedTransitions ==
  { <<IDLE, READY_TO_RECORD>>, <<READY_TO_RECORD, RECORDING>>,
    <<RECORDING, REVIEW>>, <<REVIEW, EXPORTING>>, <<EXPORTING, REVIEW>>,
    <<REVIEW, READY_TO_RECORD>> }

C2_OnlyListedTransitions ==
  [][appState' # appState => <<appState, appState'>> \in AllowedTransitions]_vars

\* C3: stop() is idempotent: in every reachable state, whether or not a
\* source is active, a second stop() changes nothing after the first, and
\* after stop() no source node is left in the graph.
C3_StopIdempotent ==
  LET once == stop(G) IN
    /\ stop(once) = once
    /\ \A s \in Slots : ~once.eng.source[s].on /\ once.nodes[s] = 0

\* both slots have an active source for stop() to tear down
C3_Witness ==
  /\ eng.source["backing"].on
  /\ eng.source["vocal"].on
  /\ nodes["backing"] = 1
  /\ nodes["vocal"] = 1

\* C4: an export requested in REVIEW with no canvas leaves appState REVIEW,
\* connects no capture sink and starts no recorder and no playback.
C4_NoCanvasStaysReview ==
  [][handleDownloadNoCanvas =>
       /\ appState' = REVIEW
       /\ sinks' = sinks
       /\ exports' = exports
       /\ \A s \in Slots : nodes'[s] = 0]_vars

\* C5: a denied microphone request starts nothing: the step that handles the
\* denial leaves appState (READY_TO_RECORD stays READY_TO_RECORD), isPlaying,
\* the engine's sources, the recorders and the streams as they were.
C5_DeniedStartsNothing ==
  [][MicDenied =>
       /\ appState' = appState
       /\ isPlaying' = isPlaying
       /\ eng' = eng
       /\ nodes' = nodes
       /\ recorders' = recorders
       /\ streams' = streams
       /\ refVars' = refVars]_vars

\* the only request was denied: still READY_TO_RECORD, nothing playing
C5_Witness ==
  /\ alert = AlertMic
  /\ appState = READY_TO_RECORD
  /\ micRequests = 1
  /\ \A fx \in EffectsSet : micPending[fx] = 0
  /\ \A r \in 1..MaxRecordings : recorders[r] = "unused"
  /\ ~isPlaying
  /\ NoActiveSources

\* C6: only one export runs at a time: no export can be requested while
\* appState is EXPORTING, and never are two export recorders running or two
\* capture sinks connected.
C6_OneExportAtATime ==
  /\ appState = EXPORTING => ~ENABLED (handleDownload \/ handleDownloadNoCanvas)
  /\ Cardinality({x \in 1..MaxExports : exports[x].st = "recording"}) <= 1
  /\ sinks <= 1

\* C7: whenever appState is not EXPORTING, no capture sink is connected to
\* the master output.
C7_NoSinkOutsideExport == appState # EXPORTING => sinks = 0

\* C8: every export auto-stops no earlier than duration + margin after its
\* start, and EXPORTING always leads to REVIEW with isPlaying false and no
\* active source.
C8_ExportReturnsToReview ==
  /\ [][\A x \in 1..MaxExports :
          (exports[x].st = "recording" /\ exports'[x].st # "recording")
            => now >= exports[x].deadline]_vars
  /\ (appState = EXPORTING) ~> (appState = REVIEW /\ ~isPlaying /\ NoActiveSources)

\* C9: record-stop in RECORDING stops the recorder, stops playback and
\* releases the microphone stream, and the state then eventually becomes
\* REVIEW.
C9_StopLeadsToReview ==
  /\ [][stopRecording =>
          /\ recorders'[mediaRecorderRef] # "recording"
          /\ streams'[streamRef] = "ended"
          /\ ~isPlaying'
          /\ \A s \in Slots : nodes'[s] = 0]_vars
  /\ (\E r \in 1..MaxRecordings : recorders[r] = "stopping") ~> (appState = REVIEW)

\* C10: whenever appState is REVIEW or EXPORTING a vocal buffer is loaded.
C10_ReviewHasVocal ==
  appState \in {REVIEW, EXPORTING} => eng.buffer["vocal"].id # 0

\* REVIEW reached through the stop callback of the first recorder
C10_Witness ==
  /\ appState = REVIEW
  /\ recorders[1] = "done"
  /\ eng.buffer["vocal"].id = 1
  /\ exports[1].st = "unused"

\* what loop() writes to currentTime when it runs at clock reading n with the
\* reference start and the duration given
LoopPosition(start, dur, n) ==
  LET elapsed == n - start IN
    IF elapsed >= dur THEN dur ELSE elapsed

Min(a, b) == IF a <= b THEN a ELSE b

\* C11: after a seek to t the position read is t, a value of the scrubber's
\* range; if the transport is playing, the sources restart at offset t now and
\* a tick d clock units later reports t + d (up to the end of the track, where
\* the loop clamps to duration), whatever the reference start was before.
C11_SeekThenTick ==
  /\ [][handleSeek =>
          /\ currentTime' \in 0..SeekMax
          /\ isPlaying =>
               /\ isPlaying' /\ rafRef'
               /\ \A s \in Slots :
                    eng'.source[s].on =>
                      /\ eng'.source[s].offset = currentTime'
                      /\ eng'.source[s].start = now
               /\ \A d \in 0..(MaxClock - now) :
                    LoopPosition(startTimeRef', duration', now + d)
                      = Min(currentTime' + d, duration')]_vars
  /\ [][Tick => currentTime' = LoopPosition(startTimeRef, duration, now)]_vars

\* playing in REVIEW from position 1 at clock 0, after a seek to 1
C11_Witness ==
  /\ appState = REVIEW
  /\ isPlaying
  /\ now = 0
  /\ currentTime = 1
  /\ startTimeRef = -1
  /\ eng.source["backing"] = [on |-> TRUE, start |-> 0, offset |-> 1,
                              asset |-> eng.buffer["backing"].id]


\* C12: play in REVIEW from position t starts the sources at offset t, and
\* the ticks that follow report t plus the clock time elapsed, strictly
\* increasing with the clock up to duration; a tick with elapsed >= duration
\* writes exactly duration, sets isPlaying false, requests no further frame
\* and tears down every source; and a playback left alone reaches that tick
\* (stated for playbacks whose end falls within the clock's range).
C12_PlayRunsToEnd ==
  /\ [][(togglePlayback /\ ~isPlaying) =>
          /\ isPlaying' /\ rafRef'
          /\ \A s \in Slots :
               eng'.source[s].on => eng'.source[s].offset = currentTime
          /\ \A d \in 0..(MaxClock - now) :
               LoopPosition(startTimeRef', duration', now + d)
                 = Min(currentTime + d, duration')
          /\ \A d \in 0..(MaxClock - now - 1) :
               \/ LoopPosition(startTimeRef', duration', now + d)
                    < LoopPosition(startTimeRef', duration', now + d + 1)
               \/ LoopPosition(startTimeRef', duration', now + d) = duration']_vars
  /\ [][(Tick /\ now - startTimeRef >= duration) =>
          /\ currentTime' = duration
          /\ ~isPlaying' /\ ~rafRef'
          /\ \A s \in Slots : ~eng'.source[s].on /\ nodes'[s] = 0]_vars
  /\ (appState = REVIEW /\ isPlaying /\ startTimeRef + duration <= MaxClock)
       ~> (~isPlaying \/ appState # REVIEW \/ startTimeRef + duration > MaxClock)

\* a playback in REVIEW that the loop ended at the end of the track
C12_Witness ==
  /\ appState = REVIEW
  /\ ~isPlaying /\ ~rafRef
  /\ currentTime = duration
  /\ startTimeRef = 1
  /\ duration = 1
  /\ now = 2
  /\ NoActiveSources
  /\ \A x \in 1..MaxExports : exports[x].st = "unused"


\* C13: a load of the backing track that fails changes nothing: neither the
\* step that requests the load nor the step that handles the rejected decode
\* changes appState, isPlaying, currentTime, the engine (its buffers, among
\* them a backing buffer loaded before, and its sources) or duration; the
\* failure only shows the alert.
C13_FailedLoadChangesNothing ==
  /\ [][handleFileUpload =>
          /\ appState' = appState /\ isPlaying' = isPlaying
          /\ currentTime' = currentTime /\ duration' = duration
          /\ eng' = eng /\ nodes' = nodes]_vars
  /\ [][UploadFailed =>
          /\ alert' = AlertLoad
          /\ appState' = appState /\ isPlaying' = isPlaying
          /\ currentTime' = currentTime /\ duration' = duration
          /\ eng' = eng /\ nodes' = nodes /\ rafRef' = rafRef]_vars

\* one file is loaded, the load of the other has failed
C13_Witness ==
  /\ alert = AlertLoad
  /\ appState = READY_TO_RECORD
  /\ selected = Files
  /\ uploads = {}
  /\ eng.buffer["backing"].id # 0
  /\ duration = eng.buffer["backing"].dur
  /\ micRequests = 0


\* the controls the App renders and enables in each state
Controls ==
  CASE appState = IDLE            -> {"upload"}
    [] appState = READY_TO_RECORD -> {"seek", "record"}
    [] appState = RECORDING       -> {"stop"}
    [] appState = REVIEW          -> {"seek", "reset", "play", "download", "effects"}
    [] appState = EXPORTING       -> {}

\* an error has been handled: an alert was shown (decode of the backing file,
\* microphone denied), the decode of a captured vocal was rejected, or an
\* export returned for lack of a canvas (EXPORTING with no export in flight)
ErrorHandled ==
  \/ alert # NoAlert
  \/ \E r \in 1..MaxRecordings : recorders[r] = "failed"
  \/ appState = EXPORTING /\ \A x \in 1..MaxExports : exports[x].st = "unused"

\* nothing runs and no completion is pending
Quiescent ==
  /\ ~isPlaying
  /\ uploads = {}
  /\ \A fx \in EffectsSet : micPending[fx] = 0
  /\ \A r \in 1..MaxRecordings : recorders[r] \notin {"recording", "stopping"}
  /\ \A x \in 1..MaxExports : exports[x].st = "unused"

\* C14: after any handled error the system is not stuck: some control is
\* rendered and enabled, and when nothing runs and nothing is pending, a
\* control that loads a track or starts a transport (upload, record, play,
\* download) is among them.
C14_UsableAfterError ==
  ErrorHandled =>
    /\ Controls # {}
    /\ Quiescent => Controls \cap {"upload", "record", "play", "download"} # {}


\* C15: the reported duration is the duration of the buffer in the backing
\* slot, and no active backing source plays a buffer other than the one in
\* the slot: once a second load has completed, nothing plays the first.
C15_LoadReplaces ==
  /\ duration = eng.buffer["backing"].dur
  /\ eng.source["backing"].on =>
       eng.source["backing"].asset = eng.buffer["backing"].id


\* C16: applyEffects changes only the parameter targets: called in any
\* reachable state with any settings it leaves the buffers, the sources and
\* the source nodes as they are, and the step in which the settings change
\* leaves appState, currentTime, isPlaying, the reference start, the pending
\* frame callback, the buffers and the sources unchanged, so that the tick
\* that follows computes the position it would have computed before.
C16_EffectsFrame ==
  /\ [](\A fx \in EffectsSet :
          LET after == applyEffects(G, fx) IN
            /\ after.eng.buffer = eng.buffer
            /\ after.eng.source = eng.source
            /\ after.nodes = nodes
            /\ after.eng.target = EffectTargets(fx))
  /\ [][SetEffects =>
          /\ eng'.target = EffectTargets(effects')
          /\ appState' = appState /\ currentTime' = currentTime
          /\ isPlaying' = isPlaying /\ startTimeRef' = startTimeRef
          /\ rafRef' = rafRef /\ duration' = duration
          /\ eng'.buffer = eng.buffer /\ eng'.source = eng.source
          /\ nodes' = nodes /\ sinks' = sinks
          /\ LoopPosition(startTimeRef', duration', now')
               = LoopPosition(startTimeRef, duration, now)]_vars

\* the settings were changed during a playback in REVIEW that started at an
\* earlier clock reading: the new targets are set, the values not yet there
C16_Witness ==
  /\ appState = REVIEW
  /\ isPlaying /\ rafRef
  /\ eng.source["vocal"].on
  /\ eng.source["vocal"].start < now
  /\ effects # DEFAULT_EFFECTS
  /\ eng.target = EffectTargets(effects)
  /\ eng.value = EffectTargets(DEFAULT_EFFECTS)


\* the ends of the ranges of the sliders and knobs: volume 0..2, the EQ
\* gains -12..12 dB, reverbMix 0..1
EffectsRange ==
  [volume : {0, 200}, lowGain : {-12, 12}, midGain : {-12, 12},
   highGain : {-12, 12}, reverbMix : {0, 100}]

\* C17: applyEffects never assigns a parameter value: in every reachable
\* state, for every setting in use, the values of the six parameters right
\* after applyEffects are the values right before it and only the targets
\* are new; the same for the ends of the documented ranges, applied to the
\* engine as it is before a track is loaded; and in a run no step that
\* leaves the clock where it is changes a value.
C17_NoParameterJump ==
  /\ [](\A fx \in EffectsSet :
          LET after == applyEffects(G, fx) IN
            /\ after.eng.value = eng.value
            /\ after.eng.target = EffectTargets(fx))
  /\ [](appState = IDLE =>
          \A fx \in EffectsRange :
            LET after == applyEffects(G, fx) IN
              /\ after.eng.value = eng.value
              /\ after.eng.target = EffectTargets(fx))
  /\ [][now' = now => eng'.value = eng.value]_vars

\* new settings were applied and the values are still those of the old ones
C17_Witness ==
  /\ appState = REVIEW
  /\ ~isPlaying
  /\ effects # DEFAULT_EFFECTS
  /\ eng.target = EffectTargets(effects)
  /\ eng.value = EffectTargets(DEFAULT_EFFECTS)
  /\ eng.value # eng.target


\* C18: in every reachable state 0 <= currentTime <= duration.
C18_PositionInRange == 0 <= currentTime /\ currentTime <= duration


\* C19: while the transport is stopped (isPlaying false: after a pause, a
\* record-stop, a reset, the tick at the end of the track or the export
\* timer, and until the next start) no frame callback is pending and no tick
\* can fire, so the loop does not write currentTime.
C19_StopCancelsTick == ~isPlaying => (~rafRef /\ ~ENABLED Tick)

\* paused in the middle of the track: no callback is left pending
C19_Witness ==
  /\ appState = REVIEW
  /\ ~isPlaying /\ ~rafRef
  /\ currentTime = 1
  /\ duration = 2
  /\ startTimeRef = 0
  /\ now = 1
  /\ NoActiveSources


\* the resources of a transport: a live microphone stream, a running recorder
\* (of a recording or of an export, with its timer), a pending frame callback
TransportResourcesReleased ==
  /\ \A r \in 1..MaxRecordings : streams[r] # "live" /\ recorders[r] # "recording"
  /\ \A x \in 1..MaxExports : exports[x].st # "recording"
  /\ ~rafRef

\* C20: whenever a transport stops (isPlaying turns false: manual stop, the
\* tick at the end of the track, the export timer) no microphone stream is
\* left live, no recorder is left running and no frame or timer callback is
\* left pending.
C20_StopReleasesResources ==
  [][(isPlaying /\ ~isPlaying') => TransportResourcesReleased']_vars


\* C21: record-start is not re-entrant: at most one microphone stream is live
\* and at most one recorder is recording at any time, and in REVIEW no
\* microphone stream is live and no recorder is recording.
C21_OneRecordingAtATime ==
  /\ Cardinality({r \in 1..MaxRecordings : streams[r] = "live"}) <= 1
  /\ Cardinality({r \in 1..MaxRecordings : recorders[r] = "recording"}) <= 1
  /\ appState = REVIEW =>
       \A r \in 1..MaxRecordings :
         streams[r] # "live" /\ recorders[r] # "recording"


\* C22: whenever a source is active the reference start is the clock reading
\* at which the source was started minus the offset it was started at
\* (record-start and export-start at offset 0, play from the current
\* position, seek while playing), so the position a tick reports is the
\* source's offset plus the clock time elapsed since its start, up to the
\* end of the track, where the loop clamps to duration.
C22_ReferenceMatchesSources ==
  \A s \in Slots :
    eng.source[s].on =>
      /\ startTimeRef = eng.source[s].start - eng.source[s].offset
      /\ LoopPosition(startTimeRef, duration, now)
           = Min(eng.source[s].offset + (now - eng.source[s].start), duration)

\* playing in REVIEW: started at clock 1 from position 1, read at clock 2
C22_Witness ==
  /\ appState = REVIEW
  /\ isPlaying
  /\ now = 2
  /\ duration = 2
  /\ startTimeRef = 0
  /\ eng.source["backing"].on /\ eng.source["vocal"].on
  /\ eng.source["backing"].start = 1
  /\ eng.source["backing"].offset = 1


\* C23: while appState is RECORDING only the backing track is played: the
\* vocal slot has no active source and no source node.
C23_RecordingPlaysBackingOnly ==
  appState = RECORDING =>
    ~eng.source["vocal"].on /\ nodes["vocal"] = 0

\* C24: whenever appState is IDLE or READY_TO_RECORD nothing is playing:
\* isPlaying is false, no source is active and no recorder is recording.
C24_NothingPlaysBeforeRecording ==
  appState \in {IDLE, READY_TO_RECORD} =>
    /\ ~isPlaying
    /\ \A s \in Slots : ~eng.source[s].on /\ nodes[s] = 0
    /\ \A r \in 1..MaxRecordings : recorders[r] # "recording"
    /\ \A x \in 1..MaxExports : exports[x].st # "recording"

====
